---- MODULE Spec2Model ----
(***************************************************************************)
(* rustache: the parser (src/src/parser.rs, parse_nodes) and the renderer  *)
(* (src/src/template.rs, Template::render_data).                           *)
(*                                                                         *)
(* Strings (&str, String) are sequences of one-character strings, so that  *)
(* contains_char, split_str, push_str and escape_html are computed         *)
(* character by character as the code computes them.                       *)
(***************************************************************************)
EXTENDS Integers, Sequences, FiniteSets, TLC

VARIABLES
    list,      \* parse_nodes: the token list given to the call
    it,        \* parse_nodes: position the enumerate() iterator yields next (1-based)
    i,         \* parse_nodes: index of the token yielded last (0 before the first)
    nodes,     \* parse_nodes: the nodes pushed so far
    returned,  \* parse_nodes: TRUE once the loop has broken and nodes is returned
    rnodes,    \* render_data: parser.nodes, the node list being rendered
    data,      \* render_data: datastore.data, a map from keys to Data
    pos,       \* render_data: position of the for loop in parser.nodes (1-based)
    sink,      \* render_data: what has been written to the writer
    status     \* render_data: "running", "done" (returned) or "failed" (fail! unwound)

vars == <<list, it, i, nodes, returned, rnodes, data, pos, sink, status>>
parserVars == <<list, it, i, nodes, returned>>
renderVars == <<rnodes, data, pos, sink, status>>

----------------------------------------------------------------------------
(* Bounds of the model. *)

\* longest token list over the whole token alphabet
MaxTokens == 3
\* longest token list over the section alphabet (text, opens, closes)
MaxNest == 5
\* longest list of texts, opens and closes when termination is checked
MaxFair == 5
\* longest node list rendered
MaxNodes == 3
\* longest string bound to a key of the data store
MaxStrLen == 2

----------------------------------------------------------------------------
(* Strings. *)

\* str::contains_char
contains_char(s, c) == \E k \in 1..Len(s) : s[k] = c

\* String::push_str
push_str(s, t) == s \o t

\* String::push_char
push_char(s, c) == Append(s, c)

\* str::split_str(sep).collect(), for a one-character separator
RECURSIVE split_str(_, _)
split_str(s, sep) ==
    IF ~contains_char(s, sep)
    THEN <<s>>
    ELSE LET k == CHOOSE k \in 1..Len(s) :
                      s[k] = sep /\ \A m \in 1..(k - 1) : s[m] # sep
         IN  <<SubSeq(s, 1, k - 1)>> \o split_str(SubSeq(s, k + 1, Len(s)), sep)

----------------------------------------------------------------------------
(* compiler::Token, as parse_nodes matches on it. *)

Text(text) == [kind |-> "Text", text |-> text]
Variable(name, raw) == [kind |-> "Variable", name |-> name, raw |-> raw]
OTag(name, inverted, raw) ==
    [kind |-> "OTag", name |-> name, inverted |-> inverted, raw |-> raw]
CTag(name, raw) == [kind |-> "CTag", name |-> name, raw |-> raw]
Raw(name, raw) == [kind |-> "Raw", name |-> name, raw |-> raw]
Partial(name, raw) == [kind |-> "Partial", name |-> name, raw |-> raw]

(* parser::Node. *)

Static(text) == [kind |-> "Static", text |-> text]
Value(key, raw) == [kind |-> "Value", key |-> key, raw |-> raw]
Section(key, children, inverted, otag, ctag) ==
    [kind |-> "Section", key |-> key, children |-> children,
     inverted |-> inverted, otag |-> otag, ctag |-> ctag]
Unescaped(key, raw) == [kind |-> "Unescaped", key |-> key, raw |-> raw]
Part(key, raw) == [kind |-> "Part", key |-> key, raw |-> raw]

----------------------------------------------------------------------------
(* parse_nodes. *)

\* push as a bug would have it: the node goes to the front of the vector.
push_front(v, n) == <<n>> \o v

\* Vec::push on the result vector
push(v, n) == Append(v, n)

\* The Text arm.
TextArm(token) == Static(token.text)

\* The dotted Variable arm as a bug would have it: the child is keyed on the
\* second segment, parts[1], and not on the last.
VariableDotArmSecond(name) ==
    LET parts    == split_str(name, ".")
        section  == parts[1]
        variable == parts[2]
        var      == push_str(push_str(<<"{", "{">>, variable), <<"}", "}">>)
        otag     == push_str(push_str(<<"{", "{", "#">>, section), <<"}", "}">>)
        ctag     == push_str(push_str(<<"{", "{", "/">>, section), <<"}", "}">>)
    IN  Section(section, <<Value(variable, var)>>, FALSE, otag, ctag)

\* The Variable arm with a '.' in the name: the synthetic section.
VariableDotArm(name) ==
    LET parts    == split_str(name, ".")
        section  == parts[1]
        variable == parts[Len(parts)]
        var      == push_str(push_str(<<"{", "{">>, variable), <<"}", "}">>)
        otag     == push_str(push_str(<<"{", "{", "#">>, section), <<"}", "}">>)
        ctag     == push_str(push_str(<<"{", "{", "/">>, section), <<"}", "}">>)
    IN  Section(section, <<Value(variable, var)>>, FALSE, otag, ctag)

\* The Variable arm.
VariableArm(token) ==
    IF contains_char(token.name, ".")
    THEN VariableDotArm(token.name)
    ELSE Value(token.name, token.raw)

\* The Raw arm with a '.' in the name.
RawDotArm(name, raw) ==
    LET parts    == split_str(name, ".")
        section  == parts[1]
        variable == parts[Len(parts)]
        var      == IF contains_char(raw, "&")
                    THEN push_str(push_str(<<"{", "{", "&">>, variable), <<"}", "}">>)
                    ELSE push_str(push_str(<<"{", "{", "{">>, variable),
                                  <<"}", "}", "}">>)
        otag     == push_str(push_str(<<"{", "{", "#">>, section), <<"}", "}">>)
        ctag     == push_str(push_str(<<"{", "{", "/">>, section), <<"}", "}">>)
    IN  Section(section, <<Unescaped(variable, var)>>, FALSE, otag, ctag)

\* The Raw arm.
RawArm(token) ==
    IF contains_char(token.name, ".")
    THEN RawDotArm(token.name, token.raw)
    ELSE Unescaped(token.name, token.raw)

\* The Partial arm.
PartialArm(token) == Part(token.name, token.raw)

\* What the scan does with otag_count at an OTag item.
OTagCount(title, name, otag_count) ==
    IF title = name THEN otag_count + 1 ELSE otag_count

\* The test as a bug would have it: the first close of the name ends the
\* scan, whatever otag_count is.
CTagClosesFirst(title, name, otag_count) == title = name

\* Whether a CTag item ends the scan.
CTagCloses(title, name, otag_count) == title = name /\ otag_count = 1

\* What the scan does with otag_count at a CTag item that does not end it.
CTagCount(title, name, otag_count) ==
    IF title = name /\ otag_count > 1 THEN otag_count - 1 ELSE otag_count

\* The for loop over list.slice_from(i + 1) of the OTag arm, from item k on.
\* found: the loop broke at the closing tag; temp: that tag's raw text.
RECURSIVE ScanItems(_, _, _, _, _, _)
ScanItems(l, name, k, count, otag_count, children) ==
    IF k > Len(l)
    THEN [count |-> count, children |-> children, found |-> FALSE, temp |-> <<>>]
    ELSE LET item == l[k] IN
         CASE item.kind = "OTag" ->
                  ScanItems(l, name, k + 1, count + 1,
                            OTagCount(item.name, name, otag_count),
                            Append(children, item))
           [] item.kind = "CTag" ->
                  IF CTagCloses(item.name, name, otag_count)
                  THEN [count |-> count + 1, children |-> children,
                        found |-> TRUE, temp |-> item.raw]
                  ELSE ScanItems(l, name, k + 1, count + 1,
                                 CTagCount(item.name, name, otag_count),
                                 Append(children, item))
           [] OTHER ->
                  ScanItems(l, name, k + 1, count + 1, otag_count,
                            Append(children, item))

\* The scan of the OTag arm for the token at index k.
Scan(l, k) == ScanItems(l, l[k].name, k + 1, 0, 1, <<>>)

\* The advance as a bug would have it: the while loop is missing, and the
\* cursor stays on the token after the open.
AdvanceNone(cursor, count) == cursor

\* The advance as a bug would have it: count - 1 steps without the guard
\* count > 1, so that an open that is the last token steps the cursor back.
AdvanceUnguarded(cursor, count) == cursor + (count - 1)

\* while count > 1 { it.next(); count -= 1; }: the iterator position after it.
Advance(cursor, count) == IF count > 1 THEN cursor + (count - 1) ELSE cursor

RECURSIVE parse_nodes(_)

\* One iteration of the loop that yields a token: the token at index k is
\* matched, with the iterator already past it.
LoopBody(l, k, ns) ==
    LET token == l[k] IN
    CASE token.kind = "Text" ->
             [it |-> k + 1, nodes |-> push(ns, TextArm(token))]
      [] token.kind = "Variable" ->
             [it |-> k + 1, nodes |-> push(ns, VariableArm(token))]
      [] token.kind = "Raw" ->
             [it |-> k + 1, nodes |-> push(ns, RawArm(token))]
      [] token.kind = "Partial" ->
             [it |-> k + 1, nodes |-> push(ns, PartialArm(token))]
      [] token.kind = "CTag" ->
             [it |-> k + 1, nodes |-> ns]
      [] token.kind = "OTag" ->
             LET r == Scan(l, k) IN
             [it    |-> Advance(k + 1, r.count),
              nodes |-> IF r.found
                        THEN push(ns, Section(token.name, parse_nodes(r.children),
                                              token.inverted, token.raw, r.temp))
                        ELSE ns]

\* The loop, from iterator position k with the nodes ns pushed so far.
RECURSIVE Loop(_, _, _)
Loop(l, k, ns) ==
    IF k > Len(l)
    THEN ns
    ELSE LET st == LoopBody(l, k, ns) IN Loop(l, st.it, st.nodes)

parse_nodes(l) == Loop(l, 1, <<>>)

----------------------------------------------------------------------------
(* The token lists parse_nodes is given. *)

\* The verbatim text of a tag, as the tokens carry it: "{{# a }}".
Tag(open, name, close) == open \o <<" ">> \o name \o <<" ">> \o close

NameA == <<"a">>
NameB == <<"b">>
NameAB == <<"a", ".", "b">>
NameACB == <<"a", ".", "c", ".", "b">>

\* Tokens of every kind, plain and dotted.
FullTokens ==
    { Text(<<"x">>),
      Variable(NameB, Tag(<<"{", "{">>, NameB, <<"}", "}">>)),
      Variable(NameAB, Tag(<<"{", "{">>, NameAB, <<"}", "}">>)),
      Variable(NameACB, Tag(<<"{", "{">>, NameACB, <<"}", "}">>)),
      Raw(NameB, Tag(<<"{", "{", "&">>, NameB, <<"}", "}">>)),
      Raw(NameAB, Tag(<<"{", "{", "&">>, NameAB, <<"}", "}">>)),
      Raw(NameACB, Tag(<<"{", "{", "{">>, NameACB, <<"}", "}", "}">>)),
      Partial(<<"p">>, Tag(<<"{", "{", ">">>, <<"p">>, <<"}", "}">>)),
      OTag(NameA, FALSE, Tag(<<"{", "{", "#">>, NameA, <<"}", "}">>)),
      CTag(NameA, Tag(<<"{", "{", "/">>, NameA, <<"}", "}">>)) }

\* Text, section opens and section closes: two names, both kinds of open,
\* and two spellings of the close of a.
NestTokens ==
    { Text(<<"x">>),
      OTag(NameA, FALSE, Tag(<<"{", "{", "#">>, NameA, <<"}", "}">>)),
      OTag(NameA, TRUE, Tag(<<"{", "{", "^">>, NameA, <<"}", "}">>)),
      OTag(NameB, FALSE, Tag(<<"{", "{", "#">>, NameB, <<"}", "}">>)),
      CTag(NameA, Tag(<<"{", "{", "/">>, NameA, <<"}", "}">>)),
      CTag(NameA, <<"{", "{", "/", "a", "}", "}">>),
      CTag(NameB, Tag(<<"{", "{", "/">>, NameB, <<"}", "}">>)) }

\* The sequences over S of length at most n.
SeqUpTo(S, n) == UNION { [1..k -> S] : k \in 0..n }

TokenLists == SeqUpTo(FullTokens, MaxTokens) \cup SeqUpTo(NestTokens, MaxNest)

----------------------------------------------------------------------------
(* The parser as a state machine: one action per arm of the match on the   *)
(* token the iterator yields, and one for the None arm.                     *)

\* Some((i, &token)) => the arm for the token, whole.
Yield ==
    LET st == LoopBody(list, it, nodes) IN
    /\ i' = it
    /\ it' = st.it
    /\ nodes' = st.nodes
    /\ UNCHANGED <<list, returned>>
    /\ UNCHANGED renderVars

Yields(kind) == ~returned /\ it <= Len(list) /\ list[it].kind = kind

ParseText == Yields("Text") /\ Yield

ParseVariable == Yields("Variable") /\ Yield

ParseRaw == Yields("Raw") /\ Yield

ParsePartial == Yields("Partial") /\ Yield

ParseCTag == Yields("CTag") /\ Yield

ParseOTag == Yields("OTag") /\ Yield

\* None => break, and nodes is returned.
ParseReturn ==
    /\ ~returned
    /\ it > Len(list)
    /\ returned' = TRUE
    /\ UNCHANGED <<list, it, i, nodes>>
    /\ UNCHANGED renderVars

Init ==
    /\ list \in TokenLists
    /\ it = 1
    /\ i = 0
    /\ nodes = <<>>
    /\ returned = FALSE
    /\ rnodes = <<>>
    /\ data = <<>>
    /\ pos = 1
    /\ sink = <<>>
    /\ status = "idle"

Next ==
    \/ ParseText
    \/ ParseVariable
    \/ ParseRaw
    \/ ParsePartial
    \/ ParseCTag
    \/ ParseOTag
    \/ ParseReturn

\* A token of every kind: a section open and its close, and a dotted name.
FairTokens ==
    { Text(<<"x">>),
      Variable(NameAB, Tag(<<"{", "{">>, NameAB, <<"}", "}">>)),
      Raw(NameB, Tag(<<"{", "{", "&">>, NameB, <<"}", "}">>)),
      Partial(<<"p">>, Tag(<<"{", "{", ">">>, <<"p">>, <<"}", "}">>)),
      OTag(NameA, FALSE, Tag(<<"{", "{", "#">>, NameA, <<"}", "}">>)),
      CTag(NameA, Tag(<<"{", "{", "/">>, NameA, <<"}", "}">>)) }

\* A text, the open of a section and its close.
FairNestTokens ==
    { Text(<<"x">>),
      OTag(NameA, FALSE, Tag(<<"{", "{", "#">>, NameA, <<"}", "}">>)),
      CTag(NameA, Tag(<<"{", "{", "/">>, NameA, <<"}", "}">>)) }

\* The token lists termination is checked on: every list of one token, and
\* the lists of texts, opens and closes.
FairLists == {<<t>> : t \in FairTokens} \cup SeqUpTo(FairNestTokens, MaxFair)

FairInit ==
    /\ list \in FairLists
    /\ it = 1
    /\ i = 0
    /\ nodes = <<>>
    /\ returned = FALSE
    /\ rnodes = <<>>
    /\ data = <<>>
    /\ pos = 1
    /\ sink = <<>>
    /\ status = "idle"

\* parse_nodes is a sequential loop: while it can take a step, it takes it.
FairSpec == FairInit /\ [][Next]_vars /\ WF_vars(Next)

Spec == Init /\ [][Next]_vars

----------------------------------------------------------------------------
(* Data, as template.rs matches on it. *)

Str(val) == [type |-> "Str", str |-> val]
Bool(val) == [type |-> "Bool", bool |-> val]
Vector == [type |-> "Vector"]
Hash == [type |-> "Hash"]

(* Template. *)

\* The match as a bug would have it: no arm for '"'.
EscapeArmNoQuot(rv, c) ==
    CASE c = "<"  -> push_str(rv, <<"&", "l", "t", ";">>)
      [] c = ">"  -> push_str(rv, <<"&", "g", "t", ";">>)
      [] c = "&"  -> push_str(rv, <<"&", "a", "m", "p", ";">>)
      [] OTHER    -> push_char(rv, c)

\* One arm of the match on c in escape_html, applied to rv.
EscapeArm(rv, c) ==
    CASE c = "<"  -> push_str(rv, <<"&", "l", "t", ";">>)
      [] c = ">"  -> push_str(rv, <<"&", "g", "t", ";">>)
      [] c = "&"  -> push_str(rv, <<"&", "a", "m", "p", ";">>)
      [] c = "\"" -> push_str(rv, <<"&", "q", "u", "o", "t", ";">>)
      [] OTHER    -> push_char(rv, c)

\* for c in input.chars(), from the character at k on.
RECURSIVE EscapeChars(_, _, _)
EscapeChars(input, k, rv) ==
    IF k > Len(input)
    THEN rv
    ELSE EscapeChars(input, k + 1, EscapeArm(rv, input[k]))

escape_html(input) == EscapeChars(input, 1, <<>>)

\* Writer::write_str
write_str(writer, s) == writer \o s

\* if tmp.len() != 0 { writer.write_str(tmp) }: the writer, and no failure.
WriteTmp(writer, tmp) ==
    [writer |-> IF Len(tmp) # 0 THEN write_str(writer, tmp) ELSE writer,
     failed |-> FALSE]

\* fail!(...): the task unwinds, nothing is written.
Fail(writer) == [writer |-> writer, failed |-> TRUE]

\* handle_value_node as a bug would have it: vector and hash data are
\* skipped without a failure.
handle_value_node_swallow(d, writer) ==
    CASE d.type = "Str"    -> WriteTmp(writer, escape_html(d.str))
      [] d.type = "Bool"   -> WriteTmp(writer, IF d.bool
                                               THEN push_str(<<>>, <<"t", "r", "u", "e">>)
                                               ELSE push_str(<<>>, <<"f", "a", "l", "s", "e">>))
      [] d.type = "Vector" -> WriteTmp(writer, <<>>)
      [] d.type = "Hash"   -> WriteTmp(writer, <<>>)

handle_value_node(d, writer) ==
    CASE d.type = "Str"    -> WriteTmp(writer, escape_html(d.str))
      [] d.type = "Bool"   -> WriteTmp(writer, IF d.bool
                                               THEN push_str(<<>>, <<"t", "r", "u", "e">>)
                                               ELSE push_str(<<>>, <<"f", "a", "l", "s", "e">>))
      [] d.type = "Vector" -> Fail(writer)
      [] d.type = "Hash"   -> Fail(writer)

\* handle_unescaped_node as a bug would have it: the string is escaped as
\* in handle_value_node.
handle_unescaped_node_escaping(d, writer) == handle_value_node(d, writer)

handle_unescaped_node(d, writer) ==
    CASE d.type = "Str"    -> WriteTmp(writer, <<>> \o d.str)
      [] d.type = "Bool"   -> WriteTmp(writer, IF d.bool
                                               THEN push_str(<<>>, <<"t", "r", "u", "e">>)
                                               ELSE push_str(<<>>, <<"f", "a", "l", "s", "e">>))
      [] d.type = "Vector" -> Fail(writer)
      [] d.type = "Hash"   -> Fail(writer)

\* HashMap::contains_key
contains_key(d, key) == key \in DOMAIN d

\* The Unescaped arm of render_data.
UnescapedNode(node, d, writer) ==
    IF contains_key(d, node.key)
    THEN handle_unescaped_node(d[node.key], writer)
    ELSE [writer |-> writer, failed |-> FALSE]

\* The Value arm as a bug would have it: a key that is not bound leaves its
\* tag text in the output.
ValueNodePlaceholder(node, d, writer) ==
    IF contains_key(d, node.key)
    THEN handle_value_node(d[node.key], writer)
    ELSE [writer |-> write_str(writer, node.raw), failed |-> FALSE]

\* The Value arm of render_data.
ValueNode(node, d, writer) ==
    IF contains_key(d, node.key)
    THEN handle_value_node(d[node.key], writer)
    ELSE [writer |-> writer, failed |-> FALSE]

\* The Static arm of render_data: tmp is empty, the text is pushed on it,
\* and tmp is written.
StaticNode(node, d, writer) ==
    [writer |-> write_str(writer, push_str(<<>>, node.text)), failed |-> FALSE]

\* The arm _ => continue of render_data.
OtherNode(node, d, writer) == [writer |-> writer, failed |-> FALSE]

\* The body of the for loop of render_data for one node.
RenderNode(node, d, writer) ==
    CASE node.kind = "Unescaped" -> UnescapedNode(node, d, writer)
      [] node.kind = "Value"     -> ValueNode(node, d, writer)
      [] node.kind = "Static"    -> StaticNode(node, d, writer)
      [] OTHER                   -> OtherNode(node, d, writer)

\* for node in parser.nodes.iter(), from the node at k on.
RECURSIVE RenderFrom(_, _, _, _)
RenderFrom(ns, d, k, writer) ==
    IF k > Len(ns)
    THEN [writer |-> writer, failed |-> FALSE]
    ELSE LET r == RenderNode(ns[k], d, writer) IN
         IF r.failed THEN r ELSE RenderFrom(ns, d, k + 1, r.writer)

\* render_data on an empty writer: what is written, and whether it failed.
render_data(ns, d) == RenderFrom(ns, d, 1, <<>>)

----------------------------------------------------------------------------
(* The node lists and data stores render_data is given. *)

KeyV == <<"v">>
KeyW == <<"w">>
KeyM == <<"m">>

\* The characters escape_html tells apart, the apostrophe and a letter.
Chars == {"&", "<", ">", "\"", "'", "a"}

\* Static text, escaped and unescaped values of v, an escaped value of w,
\* and a section and an inverted section keyed on m, which no store binds.
RenderNodes ==
    { Static(<<"x">>),
      Value(KeyV, Tag(<<"{", "{">>, KeyV, <<"}", "}">>)),
      Unescaped(KeyV, Tag(<<"{", "{", "&">>, KeyV, <<"}", "}">>)),
      Value(KeyW, Tag(<<"{", "{">>, KeyW, <<"}", "}">>)),
      Section(KeyM, <<Static(<<"X">>)>>, FALSE,
              Tag(<<"{", "{", "#">>, KeyM, <<"}", "}">>),
              Tag(<<"{", "{", "/">>, KeyM, <<"}", "}">>)),
      Section(KeyM, <<Static(<<"X">>)>>, TRUE,
              Tag(<<"{", "{", "^">>, KeyM, <<"}", "}">>),
              Tag(<<"{", "{", "/">>, KeyM, <<"}", "}">>)) }

NodeLists == SeqUpTo(RenderNodes, MaxNodes)

\* What v is bound to, when it is bound: any short string, a boolean, a
\* vector or a hash.
ValuesOfV ==
    {Str(s) : s \in SeqUpTo(Chars, MaxStrLen)} \cup {Bool(TRUE), Bool(FALSE), Vector, Hash}

ValuesOfW == {Str(<<"&">>)}

\* The stores binding v, w, both or neither.
DataStores ==
    { [key \in keys |-> IF key = KeyV THEN x ELSE y] :
          keys \in SUBSET {KeyV, KeyW}, x \in ValuesOfV, y \in ValuesOfW }

----------------------------------------------------------------------------
(* The renderer as a state machine: one action per arm of the match on the *)
(* node of the for loop, and one for the end of the loop.                   *)

\* The arm for the node at pos, whole: what it writes, and whether the task
\* fails in it (the loop then goes no further).
Visit ==
    LET r == RenderNode(rnodes[pos], data, sink) IN
    /\ sink' = r.writer
    /\ status' = IF r.failed THEN "failed" ELSE "running"
    /\ pos' = IF r.failed THEN pos ELSE pos + 1
    /\ UNCHANGED <<rnodes, data>>
    /\ UNCHANGED parserVars

Visits(kinds) ==
    status = "running" /\ pos <= Len(rnodes) /\ rnodes[pos].kind \in kinds

RenderUnescaped == Visits({"Unescaped"}) /\ Visit

RenderValue == Visits({"Value"}) /\ Visit

RenderStatic == Visits({"Static"}) /\ Visit

RenderOther == Visits({"Section", "Part"}) /\ Visit

\* The loop is over: render_data returns.
RenderReturn ==
    /\ status = "running"
    /\ pos > Len(rnodes)
    /\ status' = "done"
    /\ UNCHANGED <<rnodes, data, pos, sink>>
    /\ UNCHANGED parserVars

RenderInit ==
    /\ rnodes \in NodeLists
    /\ data \in DataStores
    /\ pos = 1
    /\ sink = <<>>
    /\ status = "running"
    /\ list = <<>>
    /\ it = 1
    /\ i = 0
    /\ nodes = <<>>
    /\ returned = TRUE

RenderNext ==
    \/ RenderUnescaped
    \/ RenderValue
    \/ RenderStatic
    \/ RenderOther
    \/ RenderReturn

RenderSpec == RenderInit /\ [][RenderNext]_vars

----------------------------------------------------------------------------
(* Section matching, stated from the token list alone. *)

IsOpen(l, k, n) == l[k].kind = "OTag" /\ l[k].name = n

IsClose(l, k, n) == l[k].kind = "CTag" /\ l[k].name = n

\* The same-name nesting counter of the open at p after the token at k:
\* seeded at 1, +1 for each later open of the name, -1 for each close of it.
NestingCounter(l, p, k) ==
    1 + Cardinality({m \in (p + 1)..k : IsOpen(l, m, l[p].name)})
      - Cardinality({m \in (p + 1)..k : IsClose(l, m, l[p].name)})

\* The closes of the name after p at which the counter is 0.
ZeroCloses(l, p) ==
    {k \in (p + 1)..Len(l) : IsClose(l, k, l[p].name) /\ NestingCounter(l, p, k) = 0}

HasMatch(l, p) == ZeroCloses(l, p) # {}

\* The first of them: the matching close.
MatchingClose(l, p) ==
    CHOOSE k \in ZeroCloses(l, p) : \A m \in ZeroCloses(l, p) : k <= m

LastNode == nodes[Len(nodes)]

----------------------------------------------------------------------------
(* Lists without section tags. *)

NoSectionTags(l) == \A k \in 1..Len(l) : l[k].kind \notin {"OTag", "CTag"}

Dotted(name) == \E k \in 1..Len(name) : name[k] = "."

\* The node n is the node built from the token t, a token that is neither
\* an open nor a close.
BuiltFrom(n, t) ==
    CASE t.kind = "Text" -> n.kind = "Static" /\ n.text = t.text
      [] t.kind = "Partial" -> n.kind = "Part" /\ n.key = t.name /\ n.raw = t.raw
      [] t.kind = "Variable" /\ ~Dotted(t.name) ->
             n.kind = "Value" /\ n.key = t.name /\ n.raw = t.raw
      [] t.kind = "Raw" /\ ~Dotted(t.name) ->
             n.kind = "Unescaped" /\ n.key = t.name /\ n.raw = t.raw
      [] t.kind = "Variable" /\ Dotted(t.name) ->
             /\ n.kind = "Section"
             /\ Len(n.children) = 1
             /\ n.children[1].kind = "Value"
      [] t.kind = "Raw" /\ Dotted(t.name) ->
             /\ n.kind = "Section"
             /\ Len(n.children) = 1
             /\ n.children[1].kind = "Unescaped"
      [] OTHER -> FALSE

\* C2: for a token list with no section open and no section close, the
\* cursor has pushed one node per token it has passed, the node at each
\* position is the node built from the token at that position, and the
\* list returned is as long as the token list.
C2_OneNodePerToken ==
    NoSectionTags(list) =>
        /\ Len(nodes) = it - 1
        /\ \A k \in 1..Len(nodes) : BuiltFrom(nodes[k], list[k])
        /\ returned => Len(nodes) = Len(list)

\* A list of three tokens of three kinds, one of them dotted, has been
\* parsed and returned.
C2_Witness ==
    /\ returned
    /\ NoSectionTags(list)
    /\ Len(list) >= 3
    /\ Cardinality({list[k].kind : k \in 1..Len(list)}) >= 3
    /\ \E k \in 1..Len(list) : list[k].kind = "Variable" /\ Dotted(list[k].name)
    /\ Len(nodes) = Len(list)

----------------------------------------------------------------------------
(* Unterminated sections. *)

\* The open at p has no matching close, and every open before p is closed
\* before p: the cursor of the call reaches p.
TopUnterminated(l, p) ==
    /\ l[p].kind = "OTag"
    /\ ~HasMatch(l, p)
    /\ \A q \in 1..(p - 1) :
           l[q].kind = "OTag" => HasMatch(l, q) /\ MatchingClose(l, q) < p

\* C3: a section open with no matching close yields no node, and neither
\* does any token after it: the list returned is what the tokens before the
\* open parse to.
C3_UnterminatedDropped ==
    returned =>
        \A p \in 1..Len(list) :
            TopUnterminated(list, p) => nodes = parse_nodes(SubSeq(list, 1, p - 1))

----------------------------------------------------------------------------
(* Dotted names. *)

FirstDot(name) == CHOOSE k \in 1..Len(name) :
                      name[k] = "." /\ \A m \in 1..(k - 1) : name[m] # "."

LastDot(name) == CHOOSE k \in 1..Len(name) :
                     name[k] = "." /\ \A m \in (k + 1)..Len(name) : name[m] # "."

\* The text before the first '.', and the text after the last.
FirstSegment(name) == SubSeq(name, 1, FirstDot(name) - 1)

LastSegment(name) == SubSeq(name, LastDot(name) + 1, Len(name))

\* The section a dotted variable or raw token stands for.
DottedSection(t) ==
    LET first == FirstSegment(t.name)
        last  == LastSegment(t.name)
        child == IF t.kind = "Variable"
                 THEN Value(last, <<"{", "{">> \o last \o <<"}", "}">>)
                 ELSE IF \E k \in 1..Len(t.raw) : t.raw[k] = "&"
                 THEN Unescaped(last, <<"{", "{", "&">> \o last \o <<"}", "}">>)
                 ELSE Unescaped(last, <<"{", "{", "{">> \o last \o <<"}", "}", "}">>)
    IN  Section(first, <<child>>, FALSE,
                <<"{", "{", "#">> \o first \o <<"}", "}">>,
                <<"{", "{", "/">> \o first \o <<"}", "}">>)

\* The explicit tokens open(first), variable/raw(last), close(first).
ExplicitTokens(t) ==
    LET first == FirstSegment(t.name)
        last  == LastSegment(t.name)
    IN  << OTag(first, FALSE, Tag(<<"{", "{", "#">>, first, <<"}", "}">>)),
           [kind |-> t.kind, name |-> last, raw |-> t.raw],
           CTag(first, Tag(<<"{", "{", "/">>, first, <<"}", "}">>)) >>

\* A node without its tag texts: kind, key, inverted flag and children.
RECURSIVE Shape(_)
Shape(n) ==
    CASE n.kind = "Section" ->
             [kind |-> "Section", key |-> n.key, inverted |-> n.inverted,
              children |-> [k \in 1..Len(n.children) |-> Shape(n.children[k])]]
      [] n.kind = "Static" -> [kind |-> "Static", text |-> n.text]
      [] OTHER -> [kind |-> n.kind, key |-> n.key]

Shapes(ns) == [k \in 1..Len(ns) |-> Shape(ns[k])]

\* C4: when the cursor yields a variable or raw token whose name contains
\* '.', exactly one node is pushed: the non-inverted Section keyed on the
\* first segment, with the synthesized tag texts, whose only child is the
\* Value or Unescaped node keyed on the last segment; and that node has the
\* shape of what the explicit tokens open(first), variable/raw(last),
\* close(first) parse to.
C4_DottedDesugared ==
    [][ (~returned /\ it <= Len(list)
         /\ list[it].kind \in {"Variable", "Raw"}
         /\ Dotted(list[it].name)) =>
            /\ nodes' = Append(nodes, DottedSection(list[it]))
            /\ Shapes(<<nodes'[Len(nodes')]>>)
                   = Shapes(parse_nodes(ExplicitTokens(list[it])))
      ]_vars

\* The token yielded last is a variable token with three segments, and its
\* Section is pushed.
C4_Witness ==
    /\ i >= 1
    /\ list[i].kind = "Variable"
    /\ Dotted(list[i].name)
    /\ FirstDot(list[i].name) < LastDot(list[i].name)
    /\ Len(nodes) >= 1
    /\ LastNode.kind = "Section"
    /\ LastNode.key = FirstSegment(list[i].name)

----------------------------------------------------------------------------
(* Dangling closes. *)

\* The opens of the name n among the first k tokens that no close among
\* them has closed.
RECURSIVE OpenDepth(_, _, _)
OpenDepth(l, n, k) ==
    IF k = 0
    THEN 0
    ELSE LET d == OpenDepth(l, n, k - 1) IN
         IF IsOpen(l, k, n) THEN d + 1
         ELSE IF IsClose(l, k, n) /\ d > 0 THEN d - 1
         ELSE d

\* The close at j has no unmatched open of its name before it.
Dangling(l, j) == l[j].kind = "CTag" /\ OpenDepth(l, l[j].name, j - 1) = 0

Without(l, j) == SubSeq(l, 1, j - 1) \o SubSeq(l, j + 1, Len(l))

\* C5: a dangling close yields no node and ends no section, and the other
\* tokens are parsed as if it were absent: the list returned is what the
\* token list without the dangling close parses to.
C5_DanglingCloseAbsent ==
    returned =>
        \A j \in 1..Len(list) :
            Dangling(list, j) => nodes = parse_nodes(Without(list, j))

----------------------------------------------------------------------------
(* Rendering of values. *)

\* s with every c replaced by rep.
RECURSIVE ReplaceAll(_, _, _)
ReplaceAll(s, c, rep) ==
    IF s = <<>>
    THEN <<>>
    ELSE (IF Head(s) = c THEN rep ELSE <<Head(s)>>) \o ReplaceAll(Tail(s), c, rep)

\* s with '&' replaced first, then '<', '>' and '"'.
Escaped(s) ==
    ReplaceAll(
        ReplaceAll(
            ReplaceAll(
                ReplaceAll(s, "&", <<"&", "a", "m", "p", ";">>),
                "<", <<"&", "l", "t", ";">>),
            ">", <<"&", "g", "t", ";">>),
        "\"", <<"&", "q", "u", "o", "t", ";">>)

BoolText(b) == IF b THEN <<"t", "r", "u", "e">> ELSE <<"f", "a", "l", "s", "e">>

\* The loop is at a node of one of the kinds whose key the store binds to
\* data of one of the types.
AtBound(kinds, types) ==
    /\ status = "running"
    /\ pos <= Len(rnodes)
    /\ rnodes[pos].kind \in kinds
    /\ rnodes[pos].key \in DOMAIN data
    /\ data[rnodes[pos].key].type \in types

\* The node before pos is of the kind, and its key is bound to the data d.
Passed(kind, d) ==
    /\ pos >= 2
    /\ rnodes[pos - 1].kind = kind
    /\ rnodes[pos - 1].key \in DOMAIN data
    /\ data[rnodes[pos - 1].key] = d

\* C6: rendering a Value node whose key is bound to a String writes the
\* string with '&', '<', '>' and '"' replaced by their entities, each
\* original character once and every other character, the apostrophe
\* included, unchanged; a Boolean is written as "true" or "false".
C6_ValueEscaped ==
    [][ /\ AtBound({"Value"}, {"Str"}) =>
            /\ sink' = sink \o Escaped(data[rnodes[pos].key].str)
            /\ status' = "running"
        /\ AtBound({"Value"}, {"Bool"}) =>
            /\ sink' = sink \o BoolText(data[rnodes[pos].key].bool)
            /\ status' = "running"
      ]_vars

\* A Value node bound to the string &" followed by an apostrophe has been
\* rendered after a static text.
C6_Witness ==
    /\ Passed("Value", Str(<<"&", "'">>))
    /\ rnodes[1].kind = "Static"
    /\ pos = 3
    /\ sink = <<"x", "&", "a", "m", "p", ";", "'">>

\* C7: rendering an Unescaped node whose key is bound to a String writes
\* exactly the string; a Boolean is written as "true" or "false"; a List or
\* a Map fails the render and writes nothing.
C7_UnescapedVerbatim ==
    [][ /\ AtBound({"Unescaped"}, {"Str"}) =>
            /\ sink' = sink \o data[rnodes[pos].key].str
            /\ status' = "running"
        /\ AtBound({"Unescaped"}, {"Bool"}) =>
            /\ sink' = sink \o BoolText(data[rnodes[pos].key].bool)
            /\ status' = "running"
        /\ AtBound({"Unescaped"}, {"Vector", "Hash"}) =>
            /\ sink' = sink
            /\ status' = "failed"
      ]_vars

\* An Unescaped node bound to the string <& has been rendered: the sink
\* holds the two characters.
C7_Witness ==
    /\ Passed("Unescaped", Str(<<"<", "&">>))
    /\ pos = 2
    /\ sink = <<"<", "&">>

\* The node is a Value or Unescaped node whose key is bound to a List or a
\* Map.
Mismatch(n) ==
    /\ n.kind \in {"Value", "Unescaped"}
    /\ n.key \in DOMAIN data
    /\ data[n.key].type \in {"Vector", "Hash"}

\* C8: the loop never gets past a Value or Unescaped node whose key is
\* bound to a List or a Map: the render fails there and does not return;
\* the failing node has written nothing and no node after it is rendered,
\* so the sink holds what the nodes before it render, which is nothing
\* when the failing node is the first.
C8_TypeMismatchFails ==
    /\ \A k \in 1..(pos - 1) : ~Mismatch(rnodes[k])
    /\ (status = "running" /\ pos <= Len(rnodes) /\ Mismatch(rnodes[pos])) =>
           ~(ENABLED RenderReturn)
    /\ status = "failed" =>
           /\ pos <= Len(rnodes)
           /\ Mismatch(rnodes[pos])
           /\ sink = render_data(SubSeq(rnodes, 1, pos - 1), data).writer
           /\ pos = 1 => sink = <<>>
           /\ ~(ENABLED RenderNext)

\* The render has failed at the second of three nodes, bound to a List,
\* after a static text was written.
C8_Witness ==
    /\ status = "failed"
    /\ pos = 2
    /\ Len(rnodes) = 3
    /\ data[rnodes[pos].key] = Vector
    /\ sink = <<"x">>

----------------------------------------------------------------------------
(* Rendering of sections. *)

\* C9: rendering a Section node whose key is not in the store writes what
\* its children render against the same store when the section is
\* inverted, and nothing when it is not; the loop goes on to the next node.
C9_MissingSection ==
    [][ (Visits({"Section"}) /\ rnodes[pos].key \notin DOMAIN data) =>
            /\ sink' = sink \o (IF rnodes[pos].inverted
                                THEN render_data(rnodes[pos].children, data).writer
                                ELSE <<>>)
            /\ status' = "running"
            /\ pos' = pos + 1
      ]_vars

----------------------------------------------------------------------------
(* Keys the store does not bind. *)

\* The node is a Value or Unescaped node whose key is absent.
Absent(n) == n.kind \in {"Value", "Unescaped"} /\ n.key \notin DOMAIN data

\* What the nodes render one by one, each alone, put end to end.
RECURSIVE EachAlone(_)
EachAlone(ns) ==
    IF ns = <<>>
    THEN <<>>
    ELSE render_data(<<Head(ns)>>, data).writer \o EachAlone(Tail(ns))

\* C10: a Value or Unescaped node whose key is absent writes nothing and
\* fails nothing, so that the render ends as the render of the node list
\* without that node ends, with the same output; and the output is what
\* the nodes rendered so far write one by one, in the order of the list.
C10_AbsentKeySkipped ==
    /\ sink = EachAlone(SubSeq(rnodes, 1, pos - 1))
    /\ \A k \in 1..Len(rnodes) :
           Absent(rnodes[k]) =>
               /\ render_data(<<rnodes[k]>>, data) = [writer |-> <<>>, failed |-> FALSE]
               /\ status \in {"done", "failed"} =>
                      render_data(Without(rnodes, k), data)
                          = [writer |-> sink, failed |-> status = "failed"]

\* The render has returned; the second of three nodes is a Value node whose
\* key is absent, between a static text and a bound value: the sink holds
\* the text and the value.
C10_Witness ==
    /\ status = "done"
    /\ Len(rnodes) = 3
    /\ rnodes[1].kind = "Static"
    /\ rnodes[2].kind = "Value"
    /\ Absent(rnodes[2])
    /\ rnodes[3].kind = "Value"
    /\ ~Absent(rnodes[3])
    /\ sink = <<"x", "&", "a", "m", "p", ";">>

----------------------------------------------------------------------------
(* Termination. *)

\* C11: parse_nodes terminates on every token list: every step that yields
\* a token moves the cursor forward and never beyond the position after the
\* last token, the loop returns once the cursor is there, every recursive
\* call for the children of a section is on a list strictly shorter than
\* the list of the call, and the list returned is the value of parse_nodes
\* on the list, the same whenever the list is the same.
C11_Terminates ==
    /\ [][ ~returned =>
               \/ /\ returned'
                  /\ it > Len(list)
                  /\ it' = it
               \/ /\ ~returned'
                  /\ it' > it
                  /\ it' <= Len(list) + 1
                  /\ (list[it].kind = "OTag" /\ Scan(list, it).found) =>
                         Len(Scan(list, it).children) < Len(list)
         ]_vars
    /\ [](returned => nodes = parse_nodes(list))
    /\ <>returned

\* The call has returned on a list with a section nested in a section of
\* the same name and a dangling close: the recursive calls have been made.
C11_Witness ==
    /\ returned
    /\ it = Len(list) + 1
    /\ \E k \in 1..Len(nodes) :
           /\ nodes[k].kind = "Section"
           /\ \E c \in 1..Len(nodes[k].children) :
                  /\ nodes[k].children[c].kind = "Section"
                  /\ nodes[k].children[c].key = nodes[k].key
    /\ \E j \in 1..Len(list) : Dangling(list, j)

----------------------------------------------------------------------------
(* Where the nodes come from. The tag text of a token (the text of a Text  *)
(* token, the first and last segment of a dotted name) is copied into the  *)
(* node built from it, so parse_nodes on the list with each such text      *)
(* replaced by the token's position gives the tree with, in each node, the *)
(* position of the token it was built from.                                *)

PositionText(k) == <<ToString(k)>>

\* The list with the position of each token in place of its text.
Positioned(l) ==
    [k \in 1..Len(l) |->
        CASE l[k].kind = "Text" -> Text(PositionText(k))
          [] l[k].kind \in {"Variable", "Raw"} /\ Dotted(l[k].name) ->
                 [l[k] EXCEPT !.name =
                      PositionText(k)
                          \o SubSeq(l[k].name, FirstDot(l[k].name), LastDot(l[k].name))
                          \o PositionText(k)]
          [] OTHER -> [l[k] EXCEPT !.raw = PositionText(k)]]

\* The position a text stands for, 0 when it stands for none.
PositionOf(text, n) ==
    IF \E k \in 1..n : PositionText(k) = text
    THEN CHOOSE k \in 1..n : PositionText(k) = text
    ELSE 0

\* A Section built from a dotted token: its open tag text is synthesized.
Synthetic(n) == n.kind = "Section" /\ Len(n.otag) # 1

\* The position of the token the node was built from: for a Section, of
\* its open.
Origin(n, len) ==
    CASE n.kind = "Static" -> PositionOf(n.text, len)
      [] n.kind = "Section" /\ Synthetic(n) -> PositionOf(n.key, len)
      [] n.kind = "Section" -> PositionOf(n.otag, len)
      [] OTHER -> PositionOf(n.raw, len)

\* The positions of the tokens the leaves and the section openings come
\* from, depth first and left to right. The Section of a dotted token and
\* its one child are built from the one token and count once.
RECURSIVE Origins(_, _)
Origins(ns, len) ==
    IF ns = <<>>
    THEN <<>>
    ELSE LET n == Head(ns) IN
         <<Origin(n, len)>>
             \o (IF n.kind = "Section" /\ ~Synthetic(n)
                 THEN Origins(n.children, len)
                 ELSE <<>>)
             \o Origins(Tail(ns), len)

StrictlyIncreasing(ps) ==
    /\ \A a \in 1..Len(ps) : ps[a] >= 1
    /\ \A a, b \in 1..Len(ps) : a < b => ps[a] < ps[b]

\* Every Section built from an open closes at the matching close of its
\* open, and its children come from tokens between the two.
RECURSIVE ClosedByMatch(_, _)
ClosedByMatch(ns, l) ==
    \A k \in 1..Len(ns) :
        (ns[k].kind = "Section" /\ ~Synthetic(ns[k])) =>
            LET p == Origin(ns[k], Len(l)) IN
            /\ p >= 1
            /\ HasMatch(l, p)
            /\ PositionOf(ns[k].ctag, Len(l)) = MatchingClose(l, p)
            /\ \A q \in 1..Len(Origins(ns[k].children, Len(l))) :
                   /\ Origins(ns[k].children, Len(l))[q] > p
                   /\ Origins(ns[k].children, Len(l))[q] < MatchingClose(l, p)
            /\ ClosedByMatch(ns[k].children, l)

\* The tree of positions with, in each node, the name, flag and tag texts
\* of the tokens of l at those positions: for a Section, the name, inverted
\* flag and tag text of its own open and the tag text of the matching close.
RECURSIVE FromTokens(_, _)
FromTokens(ns, l) ==
    [k \in 1..Len(ns) |->
        LET n == ns[k]
            p == Origin(n, Len(l))
        IN  CASE n.kind = "Static" -> Static(l[p].text)
              [] n.kind = "Value" -> Value(l[p].name, l[p].raw)
              [] n.kind = "Unescaped" -> Unescaped(l[p].name, l[p].raw)
              [] n.kind = "Part" -> Part(l[p].name, l[p].raw)
              [] n.kind = "Section" /\ Synthetic(n) -> DottedSection(l[p])
              [] OTHER -> Section(l[p].name, FromTokens(n.children, l),
                                  l[p].inverted, l[p].raw,
                                  l[MatchingClose(l, p)].raw)]

====
